---- MODULE Spec2Model ----
(***************************************************************************)
(* TF-IDF vector model (src/src/VectorModel.py) with the query            *)
(* preprocessor (src/src/Preprocessor.py).                                 *)
(*                                                                         *)
(* A string is a sequence of one-character strings.  A file of the        *)
(* processed directory is modelled by its first line (all the code        *)
(* reads).  A file is named by its position in the directory listing;     *)
(* the vector store keeps the file's name, as generate_weights and        *)
(* load_vectors do.  Weights are integers: the logarithm is held in       *)
(* units of ln(2)/2, rounded (LnTable), and a cosine is held as its       *)
(* numerator and the squared norms of its denominator, compared exactly.  *)
(***************************************************************************)
EXTENDS Integers, Sequences, FiniteSets, TLC

\* ---------------------------------------------------------------- bounds
MaxDocs == 2
MaxDocLen == 2
MaxQueryLen == 4
MaxK == 3
MaxVectors == 4
MaxCoord == 1

\* Terms the processed files are written with; "a" is a substring of "ab".
Tokens == {<<"a">>, <<"a", "b">>}
\* Characters of a query text.
QueryChars == {"a", "b", "A", " ", "\t"}
\* Separators of str.split() without argument.
Whitespace == {" ", "\t", "\n"}

SeqsUpTo(S, n) == UNION {[1..k -> S] : k \in 0..n}

RECURSIVE JoinSpace(_)
JoinSpace(toks) ==
    IF toks = <<>> THEN <<>>
    ELSE IF Len(toks) = 1 THEN toks[1]
    ELSE toks[1] \o <<" ">> \o JoinSpace(Tail(toks))

\* First lines a processed file can hold: terms separated by one space.
Lines == {JoinSpace(d) : d \in SeqsUpTo(Tokens, MaxDocLen)}
\* Listings of the processed directory.
Corpora == SeqsUpTo(Lines, MaxDocs)
QueryTexts == SeqsUpTo(QueryChars, MaxQueryLen)

Range(s) == {s[i] : i \in DOMAIN s}

\* ------------------------------------------------------- Python strings
\* Code point of a character: str comparison and list.sort order by it.
Ord(c) ==
    CASE c = "\t" -> 9
      [] c = "\n" -> 10
      [] c = " " -> 32
      [] c = "A" -> 65
      [] c = "a" -> 97
      [] c = "b" -> 98

RECURSIVE StrLess(_, _)
StrLess(s, t) ==
    IF t = <<>> THEN FALSE
    ELSE IF s = <<>> THEN TRUE
    ELSE IF s[1] # t[1] THEN Ord(s[1]) < Ord(t[1])
    ELSE StrLess(Tail(s), Tail(t))

\* str.split(): runs of whitespace separate, no empty string is produced.
RECURSIVE SplitFrom(_, _, _, _)
SplitFrom(text, i, cur, out) ==
    IF i > Len(text) THEN (IF cur # <<>> THEN Append(out, cur) ELSE out)
    ELSE IF text[i] \in Whitespace
         THEN SplitFrom(text, i + 1, <<>>,
                        IF cur # <<>> THEN Append(out, cur) ELSE out)
         ELSE SplitFrom(text, i + 1, Append(cur, text[i]), out)

split(text) == SplitFrom(text, 1, <<>>, <<>>)

\* str.split(" "): every single space separates, empty strings are kept.
RECURSIVE SplitSepFrom(_, _, _, _)
SplitSepFrom(text, i, cur, out) ==
    IF i > Len(text) THEN Append(out, cur)
    ELSE IF text[i] = " "
         THEN SplitSepFrom(text, i + 1, <<>>, Append(out, cur))
         ELSE SplitSepFrom(text, i + 1, Append(cur, text[i]), out)

split_space(text) == SplitSepFrom(text, 1, <<>>, <<>>)

\* str.count(sub): occurrences of sub as a substring, not overlapping.
RECURSIVE CountFrom(_, _, _)
CountFrom(text, sub, i) ==
    IF i + Len(sub) - 1 > Len(text) THEN 0
    ELSE IF SubSeq(text, i, i + Len(sub) - 1) = sub
         THEN 1 + CountFrom(text, sub, i + Len(sub))
         ELSE CountFrom(text, sub, i + 1)

count(text, sub) == CountFrom(text, sub, 1)

\* list.count(x): elements equal to x.
list_count(words, x) == Cardinality({i \in DOMAIN words : words[i] = x})

lower_char(c) == IF c = "A" THEN "a" ELSE c
lower(s) == [i \in DOMAIN s |-> lower_char(s[i])]

\* words.sort() on the list of a set of strings.
RECURSIVE SortWords(_)
SortWords(S) ==
    IF S = {} THEN <<>>
    ELSE LET m == CHOOSE x \in S : \A y \in S \ {x} : StrLess(x, y)
         IN  <<m>> \o SortWords(S \ {m})

\* -------------------------------------------------------------- model build
\* set(f.readline().split())
terms_of(text) == Range(split(text))

\* _vector_mapping: dict(zip(words, range(len(words)))) over the sorted words.
Build_vector_mapping(files) ==
    LET words == SortWords(UNION {terms_of(files[i]) : i \in DOMAIN files})
    IN  [w \in Range(words) |-> (CHOOSE i \in DOMAIN words : words[i] = w) - 1]

\* tfs[doc_path][term] = text.count(term)
Build_tfs(files) ==
    [d \in DOMAIN files |-> [t \in terms_of(files[d]) |-> count(files[d], t)]]

\* DfInc without its else branch: every file sets dfs[term] = 1.
DfInc_overwrite(d, term) == 1

\* if term not in dfs: dfs[term] = 1 / else: dfs[term] += 1
DfInc(d, term) == IF term \notin DOMAIN d THEN 1 ELSE d[term] + 1

RECURSIVE Build_dfs(_, _)
Build_dfs(files, n) ==
    IF n = 0 THEN <<>>
    ELSE LET prev == Build_dfs(files, n - 1)
             terms == terms_of(files[n])
         IN  [t \in (DOMAIN prev) \cup terms |->
                 IF t \in terms THEN DfInc(prev, t) ELSE prev[t]]

VARIABLES
    processed_path,   \* the processed directory: the first line of each file
    doc_count,        \* self.doc_count
    vector_mapping,   \* self.vector_mapping: term -> coordinate (from 0)
    num_terms,        \* self.num_terms
    tfs,              \* self.tfs: file -> term -> count
    dfs,              \* self.dfs: term -> count
    inverted_index,   \* self.inverted_index: defaultdict(list), its keys are its domain
    weights_path,     \* the vector store: file name -> saved vector
    vectors,          \* main's vectors: the loaded dict, in insertion order
    pc,               \* main's position
    query,            \* main's query text
    query_vector,     \* main's query_vector
    ret               \* the last call: its name, arguments, result or exception

vars == <<processed_path, doc_count, vector_mapping, num_terms, tfs, dfs,
          inverted_index, weights_path, vectors, pc, query, query_vector, ret>>

model_fields == <<processed_path, doc_count, vector_mapping, num_terms, tfs, dfs>>

NoCall == [op |-> "none", term |-> <<>>, doc |-> 0, k |-> 0,
           raised |-> "", value |-> <<>>, sims |-> <<>>]

\* ------------------------------------------------------------- weighting
\* math.log in units of ln(2)/2: ln 1, ln 2, ln 3, ln 4.
LnTable == <<0, 2, 3, 4>>

\* math.log(n / d)
log_ratio(n, d) == LnTable[n] - LnTable[d]

tf(term, doc_path) == tfs[doc_path][term]
df(term) == dfs[term]
idf(term) == log_ratio(doc_count, df(term))
tf_query(term, query_words) == list_count(query_words, term)

\* tf raises KeyError when the term is not a key of tfs[doc_path].
tf_raises(term, doc_path) == term \notin DOMAIN tfs[doc_path]

tf_idf_weight(term, doc_path) == tf(term, doc_path) * idf(term)
tf_idf_weight_query(term, query_words) == tf_query(term, query_words) * idf(term)

\* weights_for_doc: np.zeros(num_terms), then one coordinate per term of the file.
weights_for_doc(doc_path) ==
    LET terms == terms_of(processed_path[doc_path])
    IN  [i \in 1..num_terms |->
            IF \E t \in terms : vector_mapping[t] = i - 1
            THEN tf_idf_weight(CHOOSE t \in terms : vector_mapping[t] = i - 1, doc_path)
            ELSE 0]

\* ---------------------------------------------------------------- actions
\* VectorModel(processed_path) over a directory holding files.
Constructed(files) ==
    /\ processed_path = files
    /\ doc_count = Len(files)
    /\ vector_mapping = Build_vector_mapping(files)
    /\ num_terms = Cardinality(DOMAIN Build_vector_mapping(files))
    /\ tfs = Build_tfs(files)
    /\ dfs = Build_dfs(files, Len(files))
    /\ inverted_index = <<>>

\* main has constructed the model; the vector store holds nothing yet.
Init ==
    /\ \E files \in Corpora : Constructed(files)
    /\ weights_path = <<>>
    /\ vectors = <<>>
    /\ pc = "constructed"
    /\ query = <<>>
    /\ query_vector = <<>>
    /\ ret = NoCall

\* tf_idf_weight(term, doc_path), called on the constructed model.
TfIdfWeight ==
    /\ pc = "constructed"
    /\ \E term \in DOMAIN vector_mapping, d \in DOMAIN processed_path :
          ret' = IF tf_raises(term, d)
                 THEN [NoCall EXCEPT !.op = "tf_idf_weight", !.term = term,
                                     !.doc = d, !.raised = "KeyError"]
                 ELSE [NoCall EXCEPT !.op = "tf_idf_weight", !.term = term,
                                     !.doc = d, !.value = <<tf_idf_weight(term, d)>>]
    /\ UNCHANGED <<model_fields, inverted_index, weights_path, vectors, pc,
                   query, query_vector>>

\* weights_for_doc(doc_path)
WeightsForDoc ==
    /\ pc = "constructed"
    /\ \E d \in DOMAIN processed_path :
          ret' = [NoCall EXCEPT !.op = "weights_for_doc", !.doc = d,
                                !.value = weights_for_doc(d)]
    /\ UNCHANGED <<model_fields, inverted_index, weights_path, vectors, pc,
                   query, query_vector>>

\* generate_weights: np.save of weights_for_doc for every file of the listing;
\* a file of the store that the listing does not name is left as it is.
GenerateWeights ==
    /\ pc = "constructed"
    /\ weights_path' =
          [f \in (DOMAIN weights_path) \cup (DOMAIN processed_path) |->
              IF f \in DOMAIN processed_path THEN weights_for_doc(f)
              ELSE weights_path[f]]
    /\ pc' = "generated"
    /\ ret' = [NoCall EXCEPT !.op = "generate_weights"]
    /\ UNCHANGED <<model_fields, inverted_index, vectors, query, query_vector>>

\* A later run of the program: the processed directory has changed, a new
\* VectorModel is constructed, and main goes on to load the store as it is
\* (main's call of generate_weights is commented out).
Rerun ==
    /\ pc = "generated"
    /\ \E files \in Corpora :
          /\ processed_path' = files
          /\ doc_count' = Len(files)
          /\ vector_mapping' = Build_vector_mapping(files)
          /\ num_terms' = Cardinality(DOMAIN Build_vector_mapping(files))
          /\ tfs' = Build_tfs(files)
          /\ dfs' = Build_dfs(files, Len(files))
    /\ inverted_index' = <<>>
    /\ vectors' = <<>>
    /\ pc' = "restarted"
    /\ ret' = NoCall
    /\ UNCHANGED <<weights_path, query, query_vector>>

Perms(S) ==
    {p \in [1..Cardinality(S) -> S] : \A i, j \in DOMAIN p : i # j => p[i] # p[j]}

\* load_vectors: every file of the store, in the order os.listdir gives.
load_vectors(order) ==
    [i \in DOMAIN order |-> [name |-> order[i], vec |-> weights_path[order[i]]]]

LoadVectors ==
    /\ pc \in {"constructed", "generated", "restarted"}
    /\ \E order \in Perms(DOMAIN weights_path) : vectors' = load_vectors(order)
    /\ pc' = "loaded"
    /\ ret' = [NoCall EXCEPT !.op = "load_vectors"]
    /\ UNCHANGED <<model_fields, inverted_index, weights_path, query, query_vector>>

\* ------------------------------------------------------------ similarity
RECURSIVE SumTo(_, _)
SumTo(f, n) == IF n = 0 THEN 0 ELSE f[n] + SumTo(f, n - 1)

\* np.dot of two vectors of one length
dot(v1, v2) == SumTo([i \in DOMAIN v1 |-> v1[i] * v2[i]], Len(v1))
\* np.linalg.norm(v) squared
norm2(v) == dot(v, v)

\* np.dot raises ValueError on vectors of different lengths.
dot_raises(v1, v2) == Len(v1) # Len(v2)

\* A float: not-a-number, or num / sqrt(n1 * n2) with n1 * n2 > 0.
NaN == [nan |-> TRUE, num |-> 0, n1 |-> 0, n2 |-> 0]

\* cosine_similarity: np.dot(v1, v2) / (norm(v1) * norm(v2)); 0.0 / 0.0 is nan.
cosine_similarity(v1, v2) ==
    IF norm2(v1) * norm2(v2) = 0 THEN NaN
    ELSE [nan |-> FALSE, num |-> dot(v1, v2), n1 |-> norm2(v1), n2 |-> norm2(v2)]

\* x < y on floats: False when either is nan.
flt(x, y) ==
    IF x.nan \/ y.nan THEN FALSE
    ELSE IF x.num < 0 /\ y.num >= 0 THEN TRUE
    ELSE IF x.num >= 0 /\ y.num < 0 THEN FALSE
    ELSE IF x.num >= 0
         THEN x.num * x.num * y.n1 * y.n2 < y.num * y.num * x.n1 * x.n2
         ELSE x.num * x.num * y.n1 * y.n2 > y.num * y.num * x.n1 * x.n2

\* x == y on floats: False when either is nan.
feq(x, y) == ~x.nan /\ ~y.nan /\ ~flt(x, y) /\ ~flt(y, x)

\* bool(r), the test of "if r:": nan is true, 0.0 is false.
truthy(r) == r.nan \/ r.num # 0

\* q_v.any()
any(v) == \E i \in DOMAIN v : v[i] # 0

\* ---------------------------------------------- list.sort and heapq (CPython)
Reverse(s) == [i \in DOMAIN s |-> s[Len(s) + 1 - i]]

\* An item is [key, order, elem].  sorted(key=...) compares the keys; a list of
\* (key, order, elem) tuples compares the tuples.
ItemLt(mode, x, y) ==
    IF mode = "key" THEN flt(x.key, y.key)
    ELSE IF ~feq(x.key, y.key) THEN flt(x.key, y.key)
    ELSE IF x.order # y.order THEN x.order < y.order
    ELSE x.elem < y.elem

\* count_run: the length of the run the list starts with; i is the next index.
RECURSIVE RunEnd(_, _, _, _)
RunEnd(a, mode, desc, i) ==
    IF i > Len(a) THEN i - 1
    ELSE IF ItemLt(mode, a[i], a[i - 1]) = desc THEN RunEnd(a, mode, desc, i + 1)
    ELSE i - 1

\* binarysort's search of the place of pivot among a[l..r-1].
RECURSIVE BinaryPlace(_, _, _, _, _)
BinaryPlace(a, mode, pivot, l, r) ==
    IF l >= r THEN l
    ELSE LET p == l + ((r - l) \div 2)
         IN  IF ItemLt(mode, pivot, a[p]) THEN BinaryPlace(a, mode, pivot, l, p)
             ELSE BinaryPlace(a, mode, pivot, p + 1, r)

RECURSIVE BinarySort(_, _, _)
BinarySort(a, mode, start) ==
    IF start > Len(a) THEN a
    ELSE LET l == BinaryPlace(a, mode, a[start], 1, start)
         IN  BinarySort(SubSeq(a, 1, l - 1) \o <<a[start]>> \o SubSeq(a, l, start - 1)
                            \o SubSeq(a, start + 1, Len(a)),
                        mode, start + 1)

\* list.sort of a short list: one run, then binary insertion.
SortAscending(a, mode) ==
    IF Len(a) < 2 THEN a
    ELSE LET desc == ItemLt(mode, a[2], a[1])
             n == RunEnd(a, mode, desc, 3)
             run == IF desc THEN Reverse(SubSeq(a, 1, n)) ELSE SubSeq(a, 1, n)
         IN  BinarySort(run \o SubSeq(a, n + 1, Len(a)), mode, n + 1)

\* list.sort(reverse=True): reverse, sort, reverse.
SortReverse(a, mode) == Reverse(SortAscending(Reverse(a), mode))

RECURSIVE SiftDown(_, _, _, _)
SiftDown(h, startpos, pos, newitem) ==
    IF pos > startpos /\ ItemLt("tuple", newitem, h[pos \div 2])
    THEN SiftDown([h EXCEPT ![pos] = h[pos \div 2]], startpos, pos \div 2, newitem)
    ELSE [h EXCEPT ![pos] = newitem]

RECURSIVE SiftUpFrom(_, _, _, _)
SiftUpFrom(h, startpos, pos, newitem) ==
    IF 2 * pos <= Len(h)
    THEN LET c == 2 * pos
             child == IF c + 1 <= Len(h) /\ ~ItemLt("tuple", h[c], h[c + 1])
                      THEN c + 1 ELSE c
         IN  SiftUpFrom([h EXCEPT ![pos] = h[child]], startpos, child, newitem)
    ELSE SiftDown(h, startpos, pos, newitem)

SiftUp(h, pos) == SiftUpFrom(h, pos, pos, h[pos])

RECURSIVE HeapifyFrom(_, _)
HeapifyFrom(h, i) == IF i = 0 THEN h ELSE HeapifyFrom(SiftUp(h, i), i - 1)

heapify(h) == HeapifyFrom(h, Len(h) \div 2)
heapreplace(h, item) == SiftUp([h EXCEPT ![1] = item], 1)

\* max(range(len(keys)), key=...): the first element no later one is greater than.
RECURSIVE MaxFrom(_, _, _)
MaxFrom(keys, best, i) ==
    IF i > Len(keys) THEN best
    ELSE MaxFrom(keys, IF flt(keys[best], keys[i]) THEN i ELSE best, i + 1)

\* nlargest's loop over the elements after the first n.
RECURSIVE NLargestRest(_, _, _, _)
NLargestRest(keys, h, order, i) ==
    IF i > Len(keys) THEN h
    ELSE IF flt(h[1].key, keys[i])
         THEN NLargestRest(keys,
                           heapreplace(h, [key |-> keys[i], order |-> order, elem |-> i]),
                           order - 1, i + 1)
         ELSE NLargestRest(keys, h, order, i + 1)

Elems(items) == [i \in DOMAIN items |-> items[i].elem]

\* heapq.nlargest(n, range(len(keys)), key): positions in keys, from 1.
nlargest(n, keys) ==
    IF n = 1
    THEN (IF keys = <<>> THEN <<>> ELSE <<MaxFrom(keys, 1, 2)>>)
    ELSE IF n >= Len(keys)
    THEN Elems(SortReverse([i \in DOMAIN keys |->
                               [key |-> keys[i], order |-> 0, elem |-> i]], "key"))
    ELSE IF n <= 0 THEN <<>>
    ELSE LET first == [i \in 1..n |-> [key |-> keys[i], order |-> 1 - i, elem |-> i]]
             h == NLargestRest(keys, heapify(first), 0 - n, n + 1)
         IN  Elems(SortReverse(h, "tuple"))

\* --------------------------------------------------------------- ranking
\* find_similar's scan: the (name, r) pairs kept by "if r:", in scan order.
kept_by_scan(vs, q_v) ==
    SelectSeq([i \in DOMAIN vs |->
                  [name |-> vs[i].name, r |-> cosine_similarity(vs[i].vec, q_v)]],
              LAMBDA e : truthy(e.r))

find_similar(vs, q_v, k) ==
    IF ~any(q_v) THEN <<>>
    ELSE LET kept == kept_by_scan(vs, q_v)
             indexes == nlargest(k, [i \in DOMAIN kept |-> kept[i].r])
         IN  [i \in DOMAIN indexes |-> kept[indexes[i]].name]

\* The scores find_similar computes: none when q_v is all zero.
find_similar_scores(vs, q_v) ==
    IF ~any(q_v) THEN <<>>
    ELSE [i \in DOMAIN vs |-> cosine_similarity(vs[i].vec, q_v)]

find_similar_raises(vs, q_v) ==
    any(q_v) /\ \E i \in DOMAIN vs : dot_raises(vs[i].vec, q_v)

\* ---------------------------------------------------------- inverted index
\* has_posting with >= for >.
has_posting_nonnegative(vector, term_pos) == vector[term_pos + 1] >= 0

\* if vector[term_pos] > 0
has_posting(vector, term_pos) == vector[term_pos + 1] > 0

\* self.inverted_index[term].append(filename)
index_append(idx, term, filename) ==
    [t \in (DOMAIN idx) \cup {term} |->
        IF t = term THEN Append(IF t \in DOMAIN idx THEN idx[t] ELSE <<>>, filename)
        ELSE idx[t]]

\* vector_mapping.items(), in insertion order: the sorted words.
mapping_items == SortWords(DOMAIN vector_mapping)

\* create_inverted_index's loops from vector i, item j of vector_mapping.items()
\* on; vector[term_pos] raises IndexError on a vector shorter than the vocabulary.
RECURSIVE IndexFrom(_, _, _, _, _)
IndexFrom(idx, vs, items, i, j) ==
    IF i > Len(vs) THEN [index |-> idx, raised |-> ""]
    ELSE IF j > Len(items) THEN IndexFrom(idx, vs, items, i + 1, 1)
    ELSE LET term == items[j]
             term_pos == vector_mapping[term]
         IN  IF term_pos >= Len(vs[i].vec) THEN [index |-> idx, raised |-> "IndexError"]
             ELSE IF has_posting(vs[i].vec, term_pos)
                  THEN IndexFrom(index_append(idx, term, vs[i].name), vs, items, i, j + 1)
                  ELSE IndexFrom(idx, vs, items, i, j + 1)

create_inverted_index(vs) ==
    LET items == mapping_items IN IndexFrom(inverted_index, vs, items, 1, 1)

CreateInvertedIndex ==
    /\ pc = "loaded"
    /\ LET r == create_inverted_index(vectors)
       IN  /\ inverted_index' = r.index
           /\ pc' = IF r.raised = "" THEN "indexed" ELSE "failed"
           /\ ret' = [NoCall EXCEPT !.op = "create_inverted_index", !.raised = r.raised]
    /\ UNCHANGED <<model_fields, weights_path, vectors, query, query_vector>>

\* list(set([w.lower() for w in query.split(" ")]))
index_terms(q) == {lower(w) : w \in Range(split_space(q))}

\* self.inverted_index[t] on a defaultdict(list): a missing key is inserted.
index_after_lookup(idx, terms) ==
    [t \in (DOMAIN idx) \cup terms |-> IF t \in DOMAIN idx THEN idx[t] ELSE <<>>]

\* set([doc for t in terms for doc in self.inverted_index[t]])
relevant_docs(idx, terms) ==
    UNION {IF t \in DOMAIN idx THEN Range(idx[t]) ELSE {} : t \in terms}

\* vectors[d]
vector_of(vs, d) == (CHOOSE i \in DOMAIN vs : vs[i].name = d)

\* find_similar_with_index once list(set(...)) has put the documents in order.
scored(vs, docs, q_v) ==
    [i \in DOMAIN docs |->
        [key |-> cosine_similarity(vs[vector_of(vs, docs[i])].vec, q_v),
         order |-> 0, elem |-> docs[i]]]

find_similar_with_index(vs, docs, q_v) ==
    Elems(SortReverse(scored(vs, docs, q_v), "key"))

find_similar_with_index_raises(vs, docs, q_v) ==
    \E i \in DOMAIN docs : dot_raises(vs[vector_of(vs, docs[i])].vec, q_v)

\* ------------------------------------------------------------ Preprocessor
WordChars == {"a", "b", "A"}
\* remove_stop_words drops the words of stopwords.words("english"), which holds "a",
\* and of the stop_path file, taken to hold no word over the letters a and b.
stop_words == {<<"a">>}

\* strip_punctuation: RegexpTokenizer(r"\w+").tokenize, the runs of word characters.
RECURSIVE TokenizeFrom(_, _, _, _)
TokenizeFrom(text, i, cur, out) ==
    IF i > Len(text) THEN (IF cur # <<>> THEN Append(out, cur) ELSE out)
    ELSE IF text[i] \in WordChars
         THEN TokenizeFrom(text, i + 1, Append(cur, text[i]), out)
         ELSE TokenizeFrom(text, i + 1, <<>>,
                           IF cur # <<>> THEN Append(out, cur) ELSE out)

strip_punctuation(raw_text) == TokenizeFrom(raw_text, 1, <<>>, <<>>)
to_lower(words) == [i \in DOMAIN words |-> lower(words[i])]
remove_stop_words(words) == SelectSeq(words, LAMBDA w : w \notin stop_words)
\* PorterStemmer.stem and WordNetLemmatizer.lemmatize rewrite suffixes made of
\* letters other than a and b (s, es, ed, ing, y, ...): a word over the letters of
\* WordChars comes back as it went in.
stem(words) == words
lemmatize_verbs(words) == words

process(raw_text) ==
    lemmatize_verbs(stem(remove_stop_words(to_lower(strip_punctuation(raw_text)))))

\* query_vectorize: terms that are not in vector_mapping are skipped.
query_vectorize(query_words) ==
    [i \in 1..num_terms |->
        IF \E t \in Range(query_words) : t \in DOMAIN vector_mapping /\ vector_mapping[t] = i - 1
        THEN tf_idf_weight_query(
                 CHOOSE t \in Range(query_words) :
                     t \in DOMAIN vector_mapping /\ vector_mapping[t] = i - 1,
                 query_words)
        ELSE 0]

\* ------------------------------------------------------------ serving
\* main: processed_query = p.process(query); query_vector = vm.query_vectorize(...)
QueryVectorize ==
    /\ pc = "indexed"
    /\ \E q \in QueryTexts :
          /\ query' = q
          /\ query_vector' = query_vectorize(process(q))
    /\ pc' = "vectorized"
    /\ ret' = [NoCall EXCEPT !.op = "query_vectorize"]
    /\ UNCHANGED <<model_fields, inverted_index, weights_path, vectors>>

\* vm.find_similar(vectors, query_vector, k)
FindSimilar ==
    /\ pc = "vectorized"
    /\ \E k \in 0..MaxK :
          ret' = IF find_similar_raises(vectors, query_vector)
                 THEN [NoCall EXCEPT !.op = "find_similar", !.k = k,
                                     !.raised = "ValueError"]
                 ELSE [NoCall EXCEPT !.op = "find_similar", !.k = k,
                                     !.value = find_similar(vectors, query_vector, k),
                                     !.sims = find_similar_scores(vectors, query_vector)]
    /\ pc' = "ranked"
    /\ UNCHANGED <<model_fields, inverted_index, weights_path, vectors, query,
                   query_vector>>

\* vm.find_similar_with_index(vectors, query, query_vector); list(set(...)) puts
\* the candidate documents in an order the hash seed decides.
FindSimilarWithIndex ==
    /\ pc \in {"vectorized", "ranked"}
    /\ LET terms == index_terms(query)
       IN  /\ inverted_index' = index_after_lookup(inverted_index, terms)
           /\ \E docs \in Perms(relevant_docs(inverted_index, terms)) :
                 ret' = IF find_similar_with_index_raises(vectors, docs, query_vector)
                        THEN [NoCall EXCEPT !.op = "find_similar_with_index",
                                            !.raised = "ValueError"]
                        ELSE [NoCall EXCEPT
                                 !.op = "find_similar_with_index",
                                 !.value = find_similar_with_index(vectors, docs, query_vector),
                                 !.sims = [i \in DOMAIN docs |->
                                              scored(vectors, docs, query_vector)[i].key]]
    /\ pc' = "done"
    /\ UNCHANGED <<model_fields, weights_path, vectors, query, query_vector>>

\* ------------------------------------------------------- specifications
NextBuild ==
    \/ GenerateWeights
    \/ LoadVectors
    \/ CreateInvertedIndex

\* Construction, the vector store and the index.
SpecBuild == Init /\ [][NextBuild]_vars

Next ==
    \/ TfIdfWeight
    \/ WeightsForDoc
    \/ GenerateWeights
    \/ LoadVectors
    \/ CreateInvertedIndex
    \/ QueryVectorize
    \/ FindSimilar
    \/ FindSimilarWithIndex

\* The build, then main's query.
Spec == Init /\ [][Next]_vars

NextStale ==
    \/ GenerateWeights
    \/ Rerun
    \/ LoadVectors
    \/ CreateInvertedIndex

\* A store written by one run and loaded by a run over a changed directory.
SpecStale == Init /\ [][NextStale]_vars

\* find_similar on any mapping of names to vectors and any query vector: the
\* method reads none of the model's fields.
RankVectors == [1..2 -> (0 - 1)..MaxCoord]

InitRank ==
    /\ Constructed(<<>>)
    /\ weights_path = <<>>
    /\ \E vs \in SeqsUpTo(RankVectors, MaxVectors), q \in RankVectors :
          /\ vectors = [i \in DOMAIN vs |-> [name |-> i, vec |-> vs[i]]]
          /\ query_vector = q
    /\ pc = "vectorized"
    /\ query = <<>>
    /\ ret = NoCall

SpecRank == InitRank /\ [][FindSimilar]_vars

\* --------------------------------------------------------------- claims
\* The tokens of a file: its whitespace-split first line.
tokens_of(d) == split(processed_path[d])
\* The posting list of a term, as a set of file names.
Posting(t) == IF t \in DOMAIN inverted_index THEN Range(inverted_index[t]) ELSE {}
Served == {"indexed", "vectorized", "ranked", "done"}
NoDuplicates(s) == \A i, j \in DOMAIN s : i # j => s[i] # s[j]

\* The cosine similarity the specification defines: 0 when a norm is 0.
defined_cosine(v1, v2) ==
    IF norm2(v1) * norm2(v2) = 0 THEN [nan |-> FALSE, num |-> 0, n1 |-> 1, n2 |-> 1]
    ELSE cosine_similarity(v1, v2)

\* C1: find_similar on a query vector that is not all zero returns the first
\* min(k, n) names of the n documents of nonzero cosine similarity, sorted by
\* descending similarity, ties in scan order.
C1_matches == {i \in DOMAIN vectors :
                  defined_cosine(vectors[i].vec, query_vector).num # 0}
C1_before(j, i) ==
    LET ci == defined_cosine(vectors[i].vec, query_vector)
        cj == defined_cosine(vectors[j].vec, query_vector)
    IN  flt(ci, cj) \/ (~flt(cj, ci) /\ j < i)
C1_rank(i) == 1 + Cardinality({j \in C1_matches \ {i} : C1_before(j, i)})
C1_expected(k) ==
    LET n == Cardinality(C1_matches)
        m == IF k < n THEN k ELSE n
    IN  [r \in 1..m |-> vectors[CHOOSE i \in C1_matches : C1_rank(i) = r].name]
C1_TopK ==
    (ret.op = "find_similar" /\ any(query_vector))
        => (ret.raised = "" /\ ret.value = C1_expected(ret.k))

\* C1, away from C2's case: the same statement in the states where no loaded
\* vector has zero norm.
C1_TopK_NonzeroNorms ==
    (\A i \in DOMAIN vectors : norm2(vectors[i].vec) # 0) => C1_TopK
C1_TopK_NonzeroNorms_Witness ==
    /\ ret.op = "find_similar" /\ any(query_vector)
    /\ Len(ret.value) = 2
    /\ \A i \in DOMAIN vectors : norm2(vectors[i].vec) # 0

\* C2: no ranking path scores a document with a not-a-number similarity: the
\* score of a pair with a zero norm is 0.
C2_ZeroNormIsZero ==
    ret.op \in {"find_similar", "find_similar_with_index"}
        => (ret.raised = "" /\ \A i \in DOMAIN ret.sims : ~ret.sims[i].nan)

\* C3: when every normalized term of the query is out of the vocabulary, both
\* ranking paths return the empty list.
C3_OutOfVocabularyEmpty ==
    (/\ ret.op \in {"find_similar", "find_similar_with_index"}
     /\ \A w \in Range(process(query)) : w \notin DOMAIN vector_mapping)
        => (ret.raised = "" /\ ret.value = <<>>)

\* C4: once the index is built, a document is in the posting list of a
\* vocabulary term exactly when its loaded vector is strictly positive at the
\* term's coordinate, and a term of every document has no postings.
C4_IndexSound ==
    pc \in Served =>
        LET in_every_file == {t \in DOMAIN vector_mapping :
                                \A d \in DOMAIN processed_path : t \in Range(tokens_of(d))}
        IN  /\ \A i \in DOMAIN vectors, t \in DOMAIN vector_mapping :
                  (vectors[i].name \in Posting(t))
                      <=> (vectors[i].vec[vector_mapping[t] + 1] > 0)
            /\ \A t \in in_every_file : Posting(t) = {}
C4_Witness ==
    /\ pc = "indexed"
    /\ doc_count = 2
    /\ \E t \in DOMAIN vector_mapping :
          /\ \A d \in DOMAIN processed_path : t \in Range(tokens_of(d))
          /\ Posting(t) = {}
    /\ \E t \in DOMAIN vector_mapping : Posting(t) # {} /\ Posting(t) # {vectors[i].name : i \in DOMAIN vectors}

\* C5: find_similar_with_index returns exactly the documents in the posting
\* list of a token of the lower-cased, whitespace-split query text, each once,
\* by descending cosine similarity, and raises nothing.
C5_candidates == UNION {Posting(t) : t \in Range(split(lower(query)))}
C5_IndexedResult ==
    ret.op = "find_similar_with_index" =>
        /\ ret.raised = ""
        /\ Range(ret.value) = C5_candidates
        /\ NoDuplicates(ret.value)
        /\ \A i, j \in DOMAIN ret.value :
              i < j => ~flt(defined_cosine(vectors[vector_of(vectors, ret.value[i])].vec, query_vector),
                            defined_cosine(vectors[vector_of(vectors, ret.value[j])].vec, query_vector))

\* C5, away from the split: the same statement with the tokens as
\* query.split(" ") cuts them.
C5_IndexedResult_SpaceSplit ==
    ret.op = "find_similar_with_index" =>
        /\ ret.raised = ""
        /\ Range(ret.value) = UNION {Posting(t) : t \in index_terms(query)}
        /\ NoDuplicates(ret.value)
        /\ \A i, j \in DOMAIN ret.value :
              i < j => ~flt(defined_cosine(vectors[vector_of(vectors, ret.value[i])].vec, query_vector),
                            defined_cosine(vectors[vector_of(vectors, ret.value[j])].vec, query_vector))
C5_IndexedResult_SpaceSplit_Witness ==
    /\ ret.op = "find_similar_with_index"
    /\ Len(ret.value) = 2
    /\ flt(ret.sims[1], ret.sims[2]) \/ flt(ret.sims[2], ret.sims[1])

\* C6: every entry of the term-frequency table is the number of tokens of the
\* file's first line equal to the term.
C6_TfCountsTokens ==
    \A d \in DOMAIN tfs : \A t \in DOMAIN tfs[d] : tfs[d][t] = list_count(tokens_of(d), t)

\* C7: tf_idf_weight of a vocabulary term and a document the term does not
\* occur in returns 0 without raising, and weights_for_doc holds 0 there.
C7_AbsentTermWeighsZero ==
    /\ (ret.op = "tf_idf_weight" /\ ret.term \notin Range(tokens_of(ret.doc)))
          => (ret.raised = "" /\ ret.value = <<0>>)
    /\ ret.op = "weights_for_doc" =>
          \A t \in DOMAIN vector_mapping :
              t \notin Range(tokens_of(ret.doc)) => ret.value[vector_mapping[t] + 1] = 0

\* C8: load_vectors never returns a vector whose length is not num_terms.
C8_LoadedDimensions ==
    pc \in {"loaded", "indexed", "failed"} =>
        \A i \in DOMAIN vectors : Len(vectors[i].vec) = num_terms

\* C9: the keys of the document-frequency table are the vocabulary, and
\* df(term) is the number of files whose tokens hold the term, between 1 and
\* doc_count.
C9_DocumentFrequency ==
    /\ DOMAIN dfs = DOMAIN vector_mapping
    /\ \A t \in DOMAIN vector_mapping :
          /\ dfs[t] = Cardinality({d \in DOMAIN processed_path : t \in Range(tokens_of(d))})
          /\ 1 <= dfs[t]
          /\ dfs[t] <= doc_count
C9_Witness ==
    /\ pc = "indexed"
    /\ \E t \in DOMAIN vector_mapping :
          /\ dfs[t] = 2
          /\ \E d \in DOMAIN processed_path : list_count(tokens_of(d), t) = 2

\* C10: once the index is built, no query operation changes the vocabulary
\* mapping, the tf and df tables, the loaded vectors or the inverted index,
\* its set of keys included.
C10_ServingIsReadOnly ==
    [][(pc \in Served) => UNCHANGED <<model_fields, vectors, inverted_index>>]_vars
====
